---- MODULE Spec2Model ----
(***************************************************************************)
(* vision-app: the goal persistence facade (GET/POST /api/goals), the      *)
(* password credential store (/api/register, /api/login) and the client's  *)
(* goal list with its debounced sync, modelled from src/db-check.js,       *)
(* src/server.js and src/unnamed/part_000.                                  *)
(*                                                                         *)
(* Modelling notes.                                                        *)
(*  - src/server.js holds two server variants and src/db-check.js a third. *)
(*    "scoped" is the username-scoped server of db-check.js (the second    *)
(*    variant of server.js has the same goals handlers); "legacy" is the   *)
(*    first variant of server.js, which has no username at all.            *)
(*  - A JSON number n is Num(n) and the string of its digits is Str(n), so *)
(*    that String(id) is not the identity.                                 *)
(*  - The SQLite handle runs the statements it is given one at a time in   *)
(*    the order they were issued; sqliteQueue is that order.  None of the  *)
(*    statements of POST /api/goals has a callback, so a failing statement *)
(*    is not reported to the handler and the next statement runs.          *)
(*  - The client is that of src/unnamed/part_000; analyzeGoal and          *)
(*    toggleHabit are also modelled as src/src/App.jsx has them (Old).     *)
(*    The pure functions of the client are called in SpecCalc, with times  *)
(*    counted in hours.                                                    *)
(*  - The only backend errors modelled are the ones the source's schema    *)
(*    produces (PRIMARY KEY and UNIQUE violations) and the missing db      *)
(*    handle; the Supabase tables are taken to have the schema that        *)
(*    initDb creates for SQLite.                                           *)
(***************************************************************************)
EXTENDS Integers, Sequences, FiniteSets, TLC

\* ------------------------------------------------------------------ bounds
MaxId == 2
MaxVer == 1
MaxGoals == 2
MaxQueue == 3
MaxPending == 2
MaxSalt == 1
MaxUid == 2
MaxNet == 1
MaxClientGoals == 1
MaxNow == 2
MaxText == 2
MaxDay == 2
MaxAge == 2
MaxTabs == 2
MaxInbox == 2

\* ------------------------------------------------------------- JSON values
Num(n) == [t |-> "num", v |-> n]
Str(n) == [t |-> "str", v |-> n]

String(id) == [t |-> "str", v |-> id.v]

JSONstringify(x) == [json |-> x]
JSONparse(s) == s.json

\* node-sqlite3 binds a JS boolean as the integer 1 or 0.
SqliteBind(b) == IF b THEN 1 ELSE 0

Boolean(x) == x # 0

NoUser == ""
Users == {"alice", "bob"}

Null == [null |-> TRUE]

NoPassword == ""
Passwords == {"pw1", "pw2"}

\* The fields of a goal besides the five fixed ones, as one value.  history
\* is the set of its entries: the day that is the key, and the value.
RestOf(k) ==
  [subTasks |-> IF k % 2 = 0 THEN <<"a", "b">> ELSE <<>>,
   history |-> IF k % 2 = 0 THEN {} ELSE {[day |-> k, on |-> TRUE]},
   roadmap |-> IF k % 2 = 0 THEN <<[month |-> 1, task |-> "x"]>> ELSE <<>>,
   doneSubTasks |-> IF k % 2 = 0 THEN <<"a">> ELSE <<>>]

\* A goal as the client holds it: id i in its ver-th version.  Goals of
\* different ids differ in every field, and so do the versions of a goal.
MkGoal(i, ver) ==
  [id |-> Num(i), text |-> "t", category |-> IF (i + ver) % 2 = 0 THEN "HABIT" ELSE "PENDING",
   completed |-> ((i + ver) % 2 = 0), createdAt |-> i + ver - 1, rest |-> RestOf(i + ver)]

GoalPool == {MkGoal(i, ver) : i \in 1..MaxId, ver \in 1..MaxVer}

SeqsUpTo(S, n) == UNION {[1..k -> S] : k \in 0..n}

GoalLists == SeqsUpTo(GoalPool, MaxGoals)

Range(s) == {s[i] : i \in DOMAIN s}

\* The body of POST /api/goals: an array of goals, or something else.
Arr(s) == [isArray |-> TRUE, v |-> s]
Obj(g) == [isArray |-> FALSE, v |-> <<g>>]

GoalBodies == {Arr(s) : s \in GoalLists} \cup {Obj(g) : g \in GoalPool}

\* ----------------------------------------------------------------- state
\* variant      which server runs and which backend its environment selects
\* db           the module-level handle: "undefined" or the backend type
\* goals, users the rows of the two tables
\* sqliteQueue  the statements issued to the SQLite handle and not yet run
\* pending      Supabase POST /api/goals requests between delete and insert
\* job          the replace the backend is working on or has last finished
\*              (history; forgotten when the next request comes in)
\* res          what the last step did or answered
\* registered   the password each username was registered with (history)
VARIABLES variant, db, goals, users, sqliteQueue, pending, job, res, registered

\* The App component of one browser tab.
\* currentUser  the logged-in username, NoUser for null
\* clientGoals  the goals state
\* isAnalyzing  the isAnalyzing state
\* analyses     the tempIds of the calls of analyzeGoal that have not returned
\* timer        the timer of the save effect with what its closure holds
\* net          the requests sent and not yet handled by the server
\* inbox        the answers on their way to the client
\* deleted      the goal the user's last action deleted, if it was deleteGoal
\*              (history)
\* now          the clock of the browser, what Date.now() returns
\* calc         the last call of a function of App that is looked at on its
\*              own, with its arguments and its result
\* tabs         the goals state and the timer of each of the clients that the
\*              same user has open at once, where a specification has them
VARIABLES currentUser, clientGoals, isAnalyzing, analyses, timer, net, inbox, deleted, now, calc, tabs

server == <<variant, db, goals, users, sqliteQueue, pending, job, res, registered>>

client == <<currentUser, clientGoals, isAnalyzing, analyses, timer, net, inbox, deleted, now, calc, tabs>>

vars == <<server, client>>

Variants ==
  {[kind |-> "scoped", type |-> "sqlite"], [kind |-> "scoped", type |-> "supabase"],
   [kind |-> "legacy", type |-> "sqlite"], [kind |-> "legacy", type |-> "postgres"]}

Res(op, status, username, body, out) ==
  [op |-> op, status |-> status, username |-> username, body |-> body, goals |-> out]

AuthRes(op, status, username, password, body) ==
  [op |-> op, status |-> status, username |-> username, body |-> body, goals |-> <<>>,
   password |-> password]

NoJob == [username |-> NoUser, given |-> <<>>, before |-> {}, failed |-> FALSE,
          answered |-> 0, done |-> FALSE, started |-> FALSE]

\* A new request makes the history forget a finished replace.
ForgetJob == IF job.started /\ ~job.done THEN job ELSE NoJob

\* ------------------------------------------------------------ the tables
UserRowsAll(table, username) == table
UserRows(table, username) == {r \in table : r.username = username}

\* id TEXT PRIMARY KEY: one row per id in the whole table.
IdTaken(table, id) == \E r \in table : r.id = id

\* A bulk insert is one statement: it fails as a whole on a duplicate id.
BulkConflict(table, rows) ==
  \/ \E i \in DOMAIN rows : IdTaken(table, rows[i].id)
  \/ \E i, j \in DOMAIN rows : i # j /\ rows[i].id = rows[j].id

\* ORDER BY created_at DESC: every enumeration of the rows in which
\* created_at never increases (the order of equal keys is unspecified).
OrderByCreatedAtDesc(rows) ==
  {s \in [1..Cardinality(rows) -> rows] :
     /\ \A i, j \in DOMAIN s : i # j => s[i] # s[j]
     /\ \A i, j \in DOMAIN s : i < j => s[i].created_at >= s[j].created_at}

\* ------------------------------------------------- GET /api/goals (rows)
\* The goal a stored row is mapped to, SQLite branch.
GoalOfSqliteRow(row) ==
  [id |-> row.id, text |-> row.text, category |-> row.category,
   completed |-> Boolean(row.completed), createdAt |-> row.created_at,
   rest |-> JSONparse(row.data)]

\* The goal a stored row is mapped to, Supabase and PostgreSQL branches.
GoalOfRow(row) ==
  [id |-> row.id, text |-> row.text, category |-> row.category,
   completed |-> row.completed, createdAt |-> row.created_at, rest |-> row.data]

\* rows.map(row => ...) of the two branches.
MapSqliteRows(rows) == [i \in DOMAIN rows |-> GoalOfSqliteRow(rows[i])]
MapRows(rows) == [i \in DOMAIN rows |-> GoalOfRow(rows[i])]

\* ------------------------------------------------ POST /api/goals (rows)
goalListScoped(body) == IF body.isArray THEN body.v ELSE <<>>
goalListLegacy(body) == body.v

SqliteRow(username, g) ==
  [id |-> String(g.id), username |-> username, text |-> g.text, category |-> g.category,
   completed |-> SqliteBind(g.completed), created_at |-> g.createdAt,
   data |-> JSONstringify(g.rest)]

ObjectRow(username, g) ==
  [id |-> String(g.id), username |-> username, text |-> g.text, category |-> g.category,
   completed |-> g.completed, created_at |-> g.createdAt, data |-> g.rest]

rowsToInsert(username, goalList) == [i \in DOMAIN goalList |-> ObjectRow(username, goalList[i])]

\* The statements POST /api/goals issues inside db.client.serialize.
Stmt(op, username, row, given, last) ==
  [op |-> op, username |-> username, row |-> row, given |-> given, last |-> last]

SerializeAppend(delOp, username, goalList) ==
  [i \in DOMAIN goalList |->
     Stmt("insert", username, SqliteRow(username, goalList[i]), <<>>, i = Len(goalList))]

SerializeReplace(delOp, username, goalList) ==
  <<Stmt(delOp, username, Null, goalList, Len(goalList) = 0)>> \o
  [i \in DOMAIN goalList |->
     Stmt("insert", username, SqliteRow(username, goalList[i]), <<>>, i = Len(goalList))]

\* --------------------------------------------------------------- initDb
\* The scoped server assigns db at the end of initDb (after the awaited
\* CREATE TABLEs for SQLite; never, if createClient throws).  The legacy
\* server assigns it before its first await.
initDb ==
  /\ db = "undefined"
  /\ db' = variant.type
  /\ res' = Res("initDb", 0, NoUser, [ok |-> TRUE], <<>>)
  /\ job' = ForgetJob
  /\ UNCHANGED <<variant, goals, users, sqliteQueue, pending, registered>>

\* -------------------------------------------------------- GET /api/goals
UsernameMissing(username) == username = NoUser

GetGoalsScoped(username) ==
  /\ variant.kind = "scoped"
  /\ UNCHANGED <<variant, db, goals, users, pending, job, registered>>
  /\ IF UsernameMissing(username)
        THEN /\ res' = Res("GET /api/goals", 200, username, [ok |-> TRUE], <<>>)
             /\ UNCHANGED sqliteQueue
      ELSE IF db = "undefined"
        THEN /\ res' = Res("GET /api/goals", 500, username, [error |-> "Database not initialized"], <<>>)
             /\ UNCHANGED sqliteQueue
      ELSE IF db = "supabase"
        THEN /\ \E data \in OrderByCreatedAtDesc(UserRows(goals, username)) :
                  res' = Res("GET /api/goals", 200, username, [ok |-> TRUE], MapRows(data))
             /\ UNCHANGED sqliteQueue
      ELSE /\ Len(sqliteQueue) < MaxQueue
           /\ sqliteQueue' = Append(sqliteQueue, Stmt("all", username, Null, <<>>, TRUE))
           /\ res' = Res("db.client.all", 0, username, [ok |-> TRUE], <<>>)

GetGoalsLegacy(username) ==
  /\ variant.kind = "legacy"
  /\ UNCHANGED <<variant, db, goals, users, pending, job, registered>>
  /\ IF db = "postgres"
        THEN /\ \E rows \in OrderByCreatedAtDesc(goals) :
                  res' = Res("GET /api/goals", 200, username, [ok |-> TRUE], MapRows(rows))
             /\ UNCHANGED sqliteQueue
      ELSE /\ Len(sqliteQueue) < MaxQueue
           /\ sqliteQueue' = Append(sqliteQueue, Stmt("allLegacy", username, Null, <<>>, TRUE))
           /\ res' = Res("db.client.all", 0, username, [ok |-> TRUE], <<>>)

\* The callback of db.client.all / db.sqlite.all: the statement reaches the
\* head of the queue, runs, and the handler answers.
SqliteAll ==
  /\ sqliteQueue # <<>>
  /\ Head(sqliteQueue).op \in {"all", "allLegacy"}
  /\ LET st == Head(sqliteQueue)
         sel == IF st.op = "all" THEN UserRows(goals, st.username) ELSE goals
     IN \E rows \in OrderByCreatedAtDesc(sel) :
          res' = Res("GET /api/goals", 200, st.username, [ok |-> TRUE], MapSqliteRows(rows))
  /\ sqliteQueue' = Tail(sqliteQueue)
  /\ UNCHANGED <<variant, db, goals, users, pending, job, registered>>

\* ------------------------------------------------------- POST /api/goals
StartJob(username, given, answered, done) ==
  [username |-> username, given |-> given, before |-> UserRows(goals, username), failed |-> FALSE,
   answered |-> answered, done |-> done, started |-> TRUE]

\* Scoped server, up to its first await (Supabase) or to its answer (SQLite).
PostGoalsScoped(username, body) ==
  /\ variant.kind = "scoped"
  /\ UNCHANGED <<variant, db, users, registered>>
  /\ IF UsernameMissing(username)
        THEN /\ res' = Res("POST /api/goals", 400, username, [error |-> "Username is required"], <<>>)
             /\ job' = ForgetJob
             /\ UNCHANGED <<goals, sqliteQueue, pending>>
      ELSE IF db = "undefined"
        THEN /\ res' = Res("POST /api/goals", 500, username, [error |-> "Database not initialized"], <<>>)
             /\ job' = ForgetJob
             /\ UNCHANGED <<goals, sqliteQueue, pending>>
      ELSE IF db = "supabase"
        THEN /\ Cardinality(pending) < MaxPending
             /\ goals' = goals \ UserRows(goals, username)
             /\ pending' = pending \cup {[username |-> username, given |-> goalListScoped(body),
                                         before |-> UserRows(goals, username)]}
             /\ job' = StartJob(username, goalListScoped(body), 0, FALSE)
             /\ res' = Res("supabase.delete", 0, username, [ok |-> TRUE], <<>>)
             /\ UNCHANGED sqliteQueue
      ELSE /\ Len(sqliteQueue) + 1 + Len(goalListScoped(body)) <= MaxQueue
           /\ sqliteQueue' = sqliteQueue \o SerializeReplace("delete", username, goalListScoped(body))
           /\ res' = Res("POST /api/goals", 200, username, [status |-> "success"], <<>>)
           /\ job' = ForgetJob
           /\ UNCHANGED <<goals, pending>>

\* Scoped server, Supabase branch after the delete: the bulk insert and the answer.
PostGoalsSupabaseInsert ==
  /\ \E p \in pending :
       LET rows == rowsToInsert(p.username, p.given)
           insError == Len(rows) > 0 /\ BulkConflict(goals, rows)
       IN /\ pending' = pending \ {p}
          /\ goals' = IF insError THEN goals ELSE goals \cup Range(rows)
          /\ job' = [username |-> p.username, given |-> p.given, before |-> p.before,
                     failed |-> insError, answered |-> IF insError THEN 500 ELSE 200,
                     done |-> TRUE, started |-> TRUE]
          /\ res' = IF insError
                      THEN Res("POST /api/goals", 500, p.username, [error |-> "duplicate key"], <<>>)
                      ELSE Res("POST /api/goals", 200, p.username, [status |-> "success"], <<>>)
  /\ UNCHANGED <<variant, db, users, sqliteQueue, registered>>

\* Legacy server: no username; PostgreSQL runs BEGIN, DELETE, the INSERTs and
\* COMMIT, or ROLLBACK in the catch block.
PostGoalsLegacy(body) ==
  /\ variant.kind = "legacy"
  /\ UNCHANGED <<variant, db, users, pending, registered>>
  /\ IF db = "postgres"
        THEN LET rows == rowsToInsert(NoUser, goalListLegacy(body))
                 insError == BulkConflict({}, rows)
             IN /\ goals' = IF insError THEN goals ELSE Range(rows)
                /\ job' = [StartJob(NoUser, goalListLegacy(body), IF insError THEN 500 ELSE 200, TRUE)
                             EXCEPT !.failed = insError]
                /\ res' = IF insError
                            THEN Res("POST /api/goals", 500, NoUser, [error |-> "duplicate key"], <<>>)
                            ELSE Res("POST /api/goals", 200, NoUser, [status |-> "success"], <<>>)
                /\ UNCHANGED sqliteQueue
      ELSE /\ Len(sqliteQueue) + 1 + Len(goalListLegacy(body)) <= MaxQueue
           /\ sqliteQueue' = sqliteQueue \o SerializeReplace("deleteAll", NoUser, goalListLegacy(body))
           /\ res' = Res("POST /api/goals", 200, NoUser, [status |-> "success"], <<>>)
           /\ job' = ForgetJob
           /\ UNCHANGED goals

\* The SQLite handle runs the DELETE at the head of its queue.
SqliteRunDelete ==
  /\ sqliteQueue # <<>>
  /\ Head(sqliteQueue).op \in {"delete", "deleteAll"}
  /\ LET st == Head(sqliteQueue)
     IN /\ goals' = IF st.op = "delete" THEN goals \ UserRows(goals, st.username) ELSE {}
        /\ job' = StartJob(st.username, st.given, 200, st.last)
        /\ res' = Res("sqlite.delete", 0, st.username, [ok |-> TRUE], <<>>)
  /\ sqliteQueue' = Tail(sqliteQueue)
  /\ UNCHANGED <<variant, db, users, pending, registered>>

\* The SQLite handle runs the INSERT at the head of its queue; stmt.run has
\* no callback, so a constraint error reaches nobody.
SqliteRunInsert ==
  /\ sqliteQueue # <<>>
  /\ Head(sqliteQueue).op = "insert"
  /\ LET st == Head(sqliteQueue)
         err == IdTaken(goals, st.row.id)
     IN /\ goals' = IF err THEN goals ELSE goals \cup {st.row}
        /\ job' = [job EXCEPT !.failed = job.failed \/ err, !.done = st.last]
        /\ res' = Res("sqlite.insert", 0, st.username, [ok |-> ~err], <<>>)
  /\ sqliteQueue' = Tail(sqliteQueue)
  /\ UNCHANGED <<variant, db, users, pending, registered>>

\* ------------------------------------------------------------------ auth
\* scrypt(password, salt, 64) as an ideal key derivation: equal keys come
\* from equal passwords and salts only.
scrypt(password, salt) == [key |-> <<password, salt>>]

hashPassword(password, salt) == [salt |-> salt, hash |-> scrypt(password, salt)]

verifyPasswordAny(password, hash, salt) == TRUE
verifyPassword(password, hash, salt) == hash = scrypt(password, salt)

RequiredMissingNever(username, password) == FALSE
RequiredMissing(username, password) == username = NoUser \/ password = NoPassword

\* users: id TEXT PRIMARY KEY, username TEXT UNIQUE.
InsertUserReplace(table, row) == {r \in table : r.username # row.username /\ r.id # row.id} \cup {row}
InsertUserError(table, row) == \E r \in table : r.id = row.id \/ r.username = row.username
InsertUser(table, row) == IF InsertUserError(table, row) THEN table ELSE table \cup {row}

\* POST /api/register; salt and id are the two randomBytes draws.
PostRegister(username, password, salt, id) ==
  /\ variant.kind = "scoped"
  /\ UNCHANGED <<variant, db, goals, sqliteQueue, pending, job>>
  /\ IF RequiredMissing(username, password)
        THEN /\ res' = AuthRes("POST /api/register", 400, username, password,
                               [error |-> "Username and password required"])
             /\ UNCHANGED <<users, registered>>
      ELSE IF db = "undefined"
        THEN /\ res' = AuthRes("POST /api/register", 500, username, password,
                               [error |-> "Registration failed or username exists"])
             /\ UNCHANGED <<users, registered>>
      ELSE LET h == hashPassword(password, salt)
               row == [id |-> id, username |-> username, password_hash |-> h.hash, salt |-> h.salt]
               ok == InsertUser(users, row) # users
           IN /\ users' = InsertUser(users, row)
              /\ registered' = IF ok THEN [registered EXCEPT ![username] = password] ELSE registered
              /\ res' = IF ok
                          THEN AuthRes("POST /api/register", 200, username, password,
                                       [success |-> TRUE, username |-> username])
                          ELSE AuthRes("POST /api/register", 500, username, password,
                                       [error |-> "Registration failed or username exists"])

LoginBody(user) == [success |-> TRUE, username |-> user.username]

SelectUserAny(table, username) == table
SelectUser(table, username) == {r \in table : r.username = username}

\* POST /api/login.
PostLogin(username, password) ==
  /\ variant.kind = "scoped"
  /\ UNCHANGED <<variant, db, goals, users, sqliteQueue, pending, job, registered>>
  /\ IF RequiredMissing(username, password)
        THEN res' = AuthRes("POST /api/login", 400, username, password,
                            [error |-> "Username and password required"])
      ELSE IF db = "undefined"
        THEN res' = AuthRes("POST /api/login", 500, username, password, [error |-> "Login failed"])
      ELSE LET found == SelectUser(users, username)
           IN IF found = {}
                THEN res' = AuthRes("POST /api/login", 401, username, password,
                                    [error |-> "Invalid credentials"])
              ELSE \E user \in found :
                     IF verifyPassword(password, user.password_hash, user.salt)
                       THEN res' = AuthRes("POST /api/login", 200, username, password, LoginBody(user))
                     ELSE res' = AuthRes("POST /api/login", 401, username, password,
                                         [error |-> "Invalid credentials"])

\* ---------------------------------------------------------------- client
\* One browser tab running App.  A request is in net from fetch until the
\* server handles it, and what the server answers is in inbox until the
\* client's .then runs.
NoTimer == [armed |-> FALSE]
NoCalc == [fn |-> "none"]
NoTabs == <<>>
NoDelete == [username |-> NoUser, id |-> Null]

\* The load effect, run when currentUser has changed.
loadEffect(user) == IF user = NoUser THEN {} ELSE {[type |-> "GET", username |-> user]}

\* The save effect, run when goals or currentUser have changed: the cleanup
\* has cleared the previous timer, and a new one is set unless it returns;
\* first a variant without the test of currentUser.
saveEffectAnyUser(user, list) ==
  IF Len(list) = 0
    THEN NoTimer
  ELSE [armed |-> TRUE, username |-> user, goals |-> list]

saveEffect(user, list) ==
  IF user = NoUser \/ Len(list) = 0
    THEN NoTimer
  ELSE [armed |-> TRUE, username |-> user, goals |-> list]

\* What res.json() gives the client for an answer of the server.
Reply(r) ==
  IF r.op = "GET /api/goals"
    THEN {[op |-> "goals", data |-> IF r.status = 200 THEN Arr(r.goals) ELSE [isArray |-> FALSE, v |-> <<r.body>>]]}
  ELSE {}

\* A step of the client: the server's state stays, and the history of the
\* last answer and of a finished replace is forgotten.
ClientStep(op) ==
  /\ res' = Res(op, 0, NoUser, [ok |-> TRUE], <<>>)
  /\ job' = ForgetJob
  /\ UNCHANGED <<variant, db, goals, users, sqliteQueue, pending, registered>>
  /\ UNCHANGED <<now, calc, tabs>>

\* Time passes: the clock of the browser goes on by a millisecond.
Tick ==
  /\ now < MaxNow
  /\ now' = now + 1
  /\ UNCHANGED <<currentUser, clientGoals, isAnalyzing, analyses, timer, net, inbox, deleted, calc, tabs>>
  /\ UNCHANGED server

\* The callback of setTimeout in the save effect.
timerFires ==
  /\ timer.armed
  /\ Cardinality(net) < MaxNet
  /\ net' = net \cup {[type |-> "POST", username |-> timer.username, goals |-> timer.goals]}
  /\ timer' = NoTimer
  /\ UNCHANGED <<currentUser, clientGoals, isAnalyzing, analyses, inbox, deleted>>
  /\ ClientStep("timerFires")

\* .then(data => { if (Array.isArray(data)) setGoals(data); }) of the load effect.
\* The same without the Array.isArray test.
loadResponseUnguarded ==
  /\ \E r \in inbox :
       /\ r.op = "goals"
       /\ inbox' = inbox \ {r}
       /\ clientGoals' = r.data.v
       /\ timer' = saveEffect(currentUser, r.data.v)
  /\ UNCHANGED <<currentUser, isAnalyzing, analyses, net, deleted>>
  /\ ClientStep("loadResponse")

loadResponse ==
  /\ \E r \in inbox :
       /\ r.op = "goals"
       /\ inbox' = inbox \ {r}
       /\ IF r.data.isArray
            THEN /\ clientGoals' = r.data.v
                 /\ timer' = saveEffect(currentUser, r.data.v)
          ELSE UNCHANGED <<clientGoals, timer>>
  /\ UNCHANGED <<currentUser, isAnalyzing, analyses, net, deleted>>
  /\ ClientStep("loadResponse")

\* handleLogout, which leaves isAnalyzing as it is, and a variant that
\* sets it to false.
handleLogoutResets ==
  /\ currentUser # NoUser
  /\ currentUser' = NoUser
  /\ clientGoals' = <<>>
  /\ isAnalyzing' = FALSE
  /\ timer' = saveEffect(NoUser, <<>>)
  /\ deleted' = NoDelete
  /\ UNCHANGED <<analyses, net, inbox>>
  /\ ClientStep("handleLogout")

handleLogout ==
  /\ currentUser # NoUser
  /\ currentUser' = NoUser
  /\ clientGoals' = <<>>
  /\ timer' = saveEffect(NoUser, <<>>)
  /\ deleted' = NoDelete
  /\ UNCHANGED <<isAnalyzing, analyses, net, inbox>>
  /\ ClientStep("handleLogout")

\* What res.json() gives handleAuth for an answer of /api/login or
\* /api/register.
AuthReply(r) == {[op |-> "auth", data |-> r.body]}

\* handleAuth up to its fetch; the login screen is rendered while nobody is
\* logged in.
handleAuth(authMode, username, password) ==
  /\ currentUser = NoUser
  /\ Cardinality(net) < MaxNet
  /\ net' = net \cup {[type |-> authMode, username |-> username, password |-> password]}
  /\ UNCHANGED <<currentUser, clientGoals, isAnalyzing, analyses, timer, inbox, deleted>>
  /\ ClientStep("handleAuth")

\* handleAuth after its awaits: data.success is undefined in an answer that
\* reports an error.  setCurrentUser runs the load effect when the name has
\* changed, and setGoals([]) runs the save effect.
handleAuthResponse ==
  /\ \E r \in inbox :
       /\ r.op = "auth"
       /\ inbox' = inbox \ {r}
       /\ IF "success" \in DOMAIN r.data /\ r.data.success
            THEN /\ currentUser' = r.data.username
                 /\ clientGoals' = <<>>
                 /\ timer' = saveEffect(r.data.username, <<>>)
                 /\ net' = IF r.data.username # currentUser
                             THEN net \cup loadEffect(r.data.username) ELSE net
          ELSE UNCHANGED <<currentUser, clientGoals, timer, net>>
  /\ UNCHANGED <<isAnalyzing, analyses, deleted>>
  /\ ClientStep("handleAuthResponse")

\* The goal handleAddGoal puts in front of the list.
newGoal(tempId) ==
  [id |-> Num(tempId), text |-> "t", category |-> "PENDING", completed |-> FALSE,
   createdAt |-> tempId, rest |-> [subTasks |-> <<>>, history |-> {}]]

\* The two clients of the repository.
New == "part_000"
Old == "App.jsx"
Apps == {New, Old}

\* A key the parsed answer does not have.
Undefined == "undefined"
NoId == [t |-> "undefined", v |-> 0]

\* The fallback of the catch block of analyzeGoal.
FallbackPending == [id |-> NoId, category |-> "PENDING", rest |-> [roadmap |-> <<>>, subTasks |-> <<>>, advice |-> "failed"]]
Fallback == [id |-> NoId, category |-> "NONE", rest |-> [roadmap |-> <<>>, subTasks |-> <<>>, advice |-> "failed"]]

\* The text of the answer of the model, as a sequence of pieces: the fence
\* marker of three backticks, the language tag json, another tag, white space,
\* and texts that are each one whole JSON object.
Fence == "fence"
Ws == "\n"
Bodies == {"{habit}", "{long}", "{other}", "{nocat}", "{id}"}
Tokens == {Fence, "json", "js", Ws} \cup Bodies

\* JSON.parse of one JSON object of the answer: the object the prompt asks
\* for, one with four subTasks, one with a category the prompt does not
\* name, one without category and one with an id.
ParseBody(body) ==
  CASE body = "{habit}" -> [id |-> NoId, category |-> "HABIT",
                            rest |-> [roadmap |-> <<[month |-> 1, task |-> "x"]>>, subTasks |-> <<"a">>]]
    [] body = "{long}"  -> [id |-> NoId, category |-> "CHALLENGE",
                            rest |-> [roadmap |-> <<>>, subTasks |-> <<"a", "b", "c", "d">>]]
    [] body = "{other}" -> [id |-> NoId, category |-> "STUDY", rest |-> [advice |-> "x"]]
    [] body = "{nocat}" -> [id |-> NoId, category |-> Undefined, rest |-> [advice |-> "x"]]
    [] body = "{id}"    -> [id |-> Num(1), category |-> "HOBBY", rest |-> [advice |-> "x"]]

\* White space at the two ends of a text.
RECURSIVE DropWs(_)
DropWs(t) == IF t # <<>> /\ Head(t) = Ws THEN DropWs(Tail(t)) ELSE t

RECURSIVE DropWsEnd(_)
DropWsEnd(t) == IF t # <<>> /\ t[Len(t)] = Ws THEN DropWsEnd(SubSeq(t, 1, Len(t) - 1)) ELSE t

\* rawText.replace(...) with the pattern fence, json, white space at the
\* start: a text that starts with the fence and
\* the tag json loses them and the white space after them.
StripOpen(t) ==
  IF Len(t) >= 2 /\ t[1] = Fence /\ t[2] = "json" THEN DropWs(SubSeq(t, 3, Len(t))) ELSE t

\* .replace(...) with the pattern white space, fence at the end: a text that ends with the fence loses it and the
\* white space before it.
StripClose(t) ==
  IF t # <<>> /\ t[Len(t)] = Fence THEN DropWsEnd(SubSeq(t, 1, Len(t) - 1)) ELSE t

\* JSON.parse accepts one JSON value with white space around it, and throws
\* on everything else.
JSONparseThrows(t) == ~(Len(DropWsEnd(DropWs(t))) = 1 /\ DropWs(t)[1] \in Bodies)

JSONparseText(t) == ParseBody(DropWs(t)[1])

\* content.subTasks.slice(0, 3) of the older client.
SubTaskLimit == 3

Truncate(content) ==
  IF "subTasks" \in DOMAIN content.rest /\ Len(content.rest.subTasks) > SubTaskLimit
    THEN [content EXCEPT !.rest.subTasks = SubSeq(@, 1, SubTaskLimit)]
    ELSE content

\* The answers fetch('/api/analyze') can have: the request fails, or the
\* answer is JSON without candidates[0].content.parts[0].text (the error
\* payload of the proxy), or with a text.
Response(ok, hasText, text) == [ok |-> ok, hasText |-> hasText, text |-> text]

\* analyzeGoal: every throw inside the try block ends in the fallback.
analyzeGoal(app, response) ==
  IF ~response.ok \/ ~response.hasText THEN Fallback
  ELSE LET rawText == IF app = New THEN StripClose(StripOpen(response.text)) ELSE response.text
       IN IF rawText = <<>> \/ JSONparseThrows(rawText) THEN Fallback
          ELSE IF app = Old THEN Truncate(JSONparseText(rawText))
          ELSE JSONparseText(rawText)

\* The texts an answer may carry, and a text between an opening fence with
\* the given tag (or none) and a closing fence.
Texts == SeqsUpTo(Tokens, MaxText)
Tags == {<<>>, <<"json">>, <<"js">>}
Wrap(text, tag) == <<Fence>> \o tag \o <<Ws>> \o text \o <<Ws, Fence>>

\* The arguments of a call of analyzeGoal, and the call: for a text and for
\* the same text between fences.
AnalyzeInputs ==
  {[fn |-> "analyzeGoal", called |-> FALSE, app |-> app, text |-> text, tag |-> tag] :
     app \in Apps, text \in Texts, tag \in Tags}

CallAnalyzeGoal ==
  /\ calc.fn = "analyzeGoal" /\ ~calc.called
  /\ calc' = [fn |-> "analyzeGoal", called |-> TRUE, app |-> calc.app, text |-> calc.text, tag |-> calc.tag,
              plain |-> analyzeGoal(calc.app, Response(TRUE, TRUE, calc.text)),
              fenced |-> analyzeGoal(calc.app, Response(TRUE, TRUE, Wrap(calc.text, calc.tag)))]
  /\ UNCHANGED <<server, currentUser, clientGoals, isAnalyzing, analyses, timer, net, inbox, deleted, now, tabs>>

\* The answers of /api/analyze in the specifications of client and server:
\* the object the prompt asks for, or a failure of the request.
Answers == {Response(TRUE, TRUE, <<"{habit}">>), Response(FALSE, FALSE, <<>>)}

\* Every kind of answer: a failure of the request, an answer without text,
\* a text that is no JSON, and each JSON object.
AllAnswers ==
  {Response(FALSE, FALSE, <<>>), Response(TRUE, FALSE, <<>>), Response(TRUE, TRUE, <<"js">>)}
    \cup {Response(TRUE, TRUE, <<body>>) : body \in Bodies}

\* { ...g, ...analysis }: the keys of the analysis replace those of the goal.
Spread(g, analysis) ==
  [g EXCEPT !.id = IF analysis.id = NoId THEN g.id ELSE analysis.id,
            !.category = IF analysis.category = Undefined THEN g.category ELSE analysis.category,
            !.rest = [f \in DOMAIN g.rest \cup DOMAIN analysis.rest |->
                        IF f \in DOMAIN analysis.rest THEN analysis.rest[f] ELSE g.rest[f]]]

\* handleAddGoal up to its await; the form is disabled while isAnalyzing.
\* tempId is Date.now(), and cap stands for the 100 of goals.length >= 100,
\* which each specification scales down.
handleAddGoal(cap) ==
  /\ currentUser # NoUser
  /\ ~isAnalyzing
  /\ Len(clientGoals) < cap
  /\ clientGoals' = <<newGoal(now)>> \o clientGoals
  /\ isAnalyzing' = TRUE
  /\ analyses' = analyses \cup {now}
  /\ timer' = saveEffect(currentUser, clientGoals')
  /\ deleted' = NoDelete
  /\ UNCHANGED <<currentUser, net, inbox>>
  /\ ClientStep("handleAddGoal")

\* handleAddGoal after analyzeGoal has returned, and a variant that patches
\* the goal as it was when it was created.
handleAddGoalAnalyzedStale(tempId, response) ==
  LET analysis == analyzeGoal(New, response) IN
  /\ tempId \in analyses
  /\ analyses' = analyses \ {tempId}
  /\ clientGoals' = [i \in DOMAIN clientGoals |->
                       IF clientGoals[i].id = Num(tempId)
                         THEN Spread(newGoal(tempId), analysis) ELSE clientGoals[i]]
  /\ isAnalyzing' = FALSE
  /\ timer' = saveEffect(currentUser, clientGoals')
  /\ UNCHANGED <<currentUser, net, inbox, deleted>>
  /\ res' = Res("handleAddGoalAnalyzed", 0, NoUser, response, <<>>)
  /\ job' = ForgetJob
  /\ UNCHANGED <<variant, db, goals, users, sqliteQueue, pending, registered, now, calc, tabs>>

\* A variant that puts the analysed goal into the list when it is missing.
handleAddGoalAnalyzedUpsert(tempId, response) ==
  LET analysis == analyzeGoal(New, response) IN
  /\ tempId \in analyses
  /\ analyses' = analyses \ {tempId}
  /\ clientGoals' = IF \E i \in DOMAIN clientGoals : clientGoals[i].id = Num(tempId)
                      THEN [i \in DOMAIN clientGoals |->
                              IF clientGoals[i].id = Num(tempId)
                                THEN Spread(clientGoals[i], analysis) ELSE clientGoals[i]]
                    ELSE <<Spread(newGoal(tempId), analysis)>> \o clientGoals
  /\ isAnalyzing' = FALSE
  /\ timer' = saveEffect(currentUser, clientGoals')
  /\ UNCHANGED <<currentUser, net, inbox, deleted>>
  /\ res' = Res("handleAddGoalAnalyzed", 0, NoUser, response, <<>>)
  /\ job' = ForgetJob
  /\ UNCHANGED <<variant, db, goals, users, sqliteQueue, pending, registered, now, calc, tabs>>

handleAddGoalAnalyzed(tempId, response) ==
  LET analysis == analyzeGoal(New, response) IN
  /\ tempId \in analyses
  /\ analyses' = analyses \ {tempId}
  /\ clientGoals' = [i \in DOMAIN clientGoals |->
                       IF clientGoals[i].id = Num(tempId)
                         THEN Spread(clientGoals[i], analysis) ELSE clientGoals[i]]
  /\ isAnalyzing' = FALSE
  /\ timer' = saveEffect(currentUser, clientGoals')
  /\ UNCHANGED <<currentUser, net, inbox, deleted>>
  /\ res' = Res("handleAddGoalAnalyzed", 0, NoUser, response, <<>>)
  /\ job' = ForgetJob
  /\ UNCHANGED <<variant, db, goals, users, sqliteQueue, pending, registered, now, calc, tabs>>

Filter(list, id) ==
  LET Keep(g) == g.id # id
  IN SelectSeq(list, Keep)

\* deleteGoal, from the button of a goal that is shown.
deleteGoal(id) ==
  /\ currentUser # NoUser
  /\ \E i \in DOMAIN clientGoals : clientGoals[i].id = id
  /\ clientGoals' = Filter(clientGoals, id)
  /\ timer' = saveEffect(currentUser, clientGoals')
  /\ deleted' = [username |-> currentUser, id |-> id]
  /\ UNCHANGED <<currentUser, isAnalyzing, analyses, net, inbox>>
  /\ ClientStep("deleteGoal")

\* goals.map(...) of toggleGoal: completed of the goals with that id is
\* negated; the variant sets it to true.
mapCompleteGoal(list, id) ==
  [i \in DOMAIN list |-> IF list[i].id = id THEN [list[i] EXCEPT !.completed = TRUE] ELSE list[i]]

mapToggleGoal(list, id) ==
  [i \in DOMAIN list |-> IF list[i].id = id THEN [list[i] EXCEPT !.completed = ~@] ELSE list[i]]

toggleGoal(id) ==
  /\ currentUser # NoUser
  /\ clientGoals' = mapToggleGoal(clientGoals, id)
  /\ timer' = saveEffect(currentUser, clientGoals')
  /\ UNCHANGED <<currentUser, isAnalyzing, analyses, net, inbox, deleted>>
  /\ ClientStep("toggleGoal")

\* The day App was mounted at, as the key of history: todayStr.
todayStr == 1

\* history[day] of a goal, undefined (falsy) without an entry.
Truthy(history, day) == \E e \in history : e.day = day /\ e.on

Without(history, day) == {e \in history : e.day # day}

\* The history toggleHabit makes: the newer client deletes a truthy entry of
\* today, the older one assigns the negation; both assign true otherwise.
toggledHistory(app, history, day) ==
  IF app = New
    THEN IF Truthy(history, day) THEN Without(history, day)
         ELSE Without(history, day) \cup {[day |-> day, on |-> TRUE]}
    ELSE Without(history, day) \cup {[day |-> day, on |-> ~Truthy(history, day)]}

\* ------------------------------------------------------ getHabitStats
\* Times are counted in hours: the 86400000 ms of the source are the 24
\* hours of a day, and daysElapsed is cut at 30.
HoursPerDay == 24
ClampDays == 30

Abs(x) == IF x < 0 THEN -x ELSE x
Min(a, b) == IF a < b THEN a ELSE b
Max(a, b) == IF a > b THEN a ELSE b

\* Math.ceil(a / b) and its mistaken twin, for a >= 0 and b > 0.
Floor(a, b) == a \div b
Ceil(a, b) == (a + b - 1) \div b

\* Math.round(a / b) for a >= 0 and b > 0: halves go up.
RoundDown(a, b) == a \div b
Round(a, b) == (2 * a + b) \div (2 * b)

\* d.toISOString().split('T')[0]: the day a time falls on.
DateKey(t) == t \div HoursPerDay

\* The loop over i = 0 .. daysElapsed - 1, from i on.
RECURSIVE CountFrom(_, _, _, _)
CountFrom(i, daysElapsed, history, time) ==
  IF i >= daysElapsed THEN 0
  ELSE (IF Truthy(history, DateKey(time - i * HoursPerDay)) THEN 1 ELSE 0)
         + CountFrom(i + 1, daysElapsed, history, time)

getHabitStats(goal, time) ==
  IF goal.category # "HABIT" \/ ~goal.hasCreatedAt
    THEN [rate |-> 0, daysElapsed |-> 0, count |-> 0]
    ELSE LET daysElapsed == Max(1, Min(ClampDays, Ceil(Abs(time - goal.createdAt), HoursPerDay)))
             count == CountFrom(0, daysElapsed, goal.history, time)
         IN [rate |-> Round(count * 100, daysElapsed), daysElapsed |-> daysElapsed, count |-> count]

\* The arguments of the calls: two times of one day; goals created up to
\* MaxAge days before or after, at the edges of a day, around 30 days and 90
\* days before; histories with entries on some of the days looked at and
\* just outside of them.
Times == {100 * HoursPerDay, 100 * HoursPerDay + 23}
Ages ==
  {k * HoursPerDay + h : k \in (0 - MaxAge)..MaxAge, h \in {0, 1, 23}}
    \cup {ClampDays * HoursPerDay + h : h \in {-1, 0, 1}} \cup {90 * HoursPerDay}
Offsets == 0..MaxAge \cup {ClampDays - 1, ClampDays}
StatHistories(time) ==
  {{[day |-> DateKey(time) - k, on |-> (k \notin off)] : k \in S} :
     S \in SUBSET Offsets, off \in {{}, {0}, {1}}}

StatInputs ==
  {[fn |-> "getHabitStats", called |-> FALSE, time |-> time,
    goal |-> [category |-> category, hasCreatedAt |-> has, createdAt |-> time - age, history |-> history]] :
     time \in Times, age \in Ages, category \in {"HABIT", "HOBBY"}, has \in BOOLEAN,
     history \in UNION {StatHistories(t) : t \in Times}}

CallGetHabitStats ==
  /\ calc.fn = "getHabitStats" /\ ~calc.called
  /\ calc' = [fn |-> "getHabitStats", called |-> TRUE, time |-> calc.time, goal |-> calc.goal,
              stats |-> getHabitStats(calc.goal, calc.time)]
  /\ UNCHANGED <<server, currentUser, clientGoals, isAnalyzing, analyses, timer, net, inbox, deleted, now, tabs>>

\* The histories a goal may have over the days 1..MaxDay: for each day no
\* entry, true or false.
Histories ==
  {{[day |-> k, on |-> (f[k] = "true")] : k \in {k \in 1..MaxDay : f[k] # "absent"}} :
     f \in [1..MaxDay -> {"absent", "true", "false"}]}

\* The arguments of toggleHabit for one goal, and three calls in a row.
ToggleInputs ==
  {[fn |-> "toggleHabit", called |-> FALSE, app |-> app, history |-> history, day |-> day] :
     app \in Apps, history \in Histories, day \in 1..MaxDay}

CallToggleHabit ==
  /\ calc.fn = "toggleHabit" /\ ~calc.called
  /\ LET once == toggledHistory(calc.app, calc.history, calc.day)
         twice == toggledHistory(calc.app, once, calc.day)
     IN calc' = [fn |-> "toggleHabit", called |-> TRUE, app |-> calc.app, history |-> calc.history,
                 day |-> calc.day, once |-> once, twice |-> twice,
                 thrice |-> toggledHistory(calc.app, twice, calc.day)]
  /\ UNCHANGED <<server, currentUser, clientGoals, isAnalyzing, analyses, timer, net, inbox, deleted, now, tabs>>

\* goals.map(...) of toggleHabit.
mapToggleHabit(app, list, id) ==
  [i \in DOMAIN list |->
     IF list[i].id = id THEN [list[i] EXCEPT !.rest.history = toggledHistory(app, @, todayStr)]
     ELSE list[i]]

toggleHabit(id) ==
  /\ currentUser # NoUser
  /\ clientGoals' = mapToggleHabit(New, clientGoals, id)
  /\ timer' = saveEffect(currentUser, clientGoals')
  /\ UNCHANGED <<currentUser, isAnalyzing, analyses, net, inbox, deleted>>
  /\ ClientStep("toggleHabit")

\* g.doneSubTasks || [] with the text taken out or appended.
newDone(g, text) ==
  LET done == IF "doneSubTasks" \in DOMAIN g.rest THEN g.rest.doneSubTasks ELSE <<>>
  IN IF text \in Range(done) THEN SelectSeq(done, LAMBDA t : t # text) ELSE Append(done, text)

\* goals.map(...) of toggleSubTask.
mapToggleSubTask(list, goalId, text) ==
  [i \in DOMAIN list |->
     IF list[i].id = goalId
       THEN [list[i] EXCEPT !.rest =
               [f \in DOMAIN @ \cup {"doneSubTasks"} |->
                  IF f = "doneSubTasks" THEN newDone(list[i], text) ELSE @[f]]]
     ELSE list[i]]

toggleSubTask(goalId, text) ==
  /\ currentUser # NoUser
  /\ clientGoals' = mapToggleSubTask(clientGoals, goalId, text)
  /\ timer' = saveEffect(currentUser, clientGoals')
  /\ UNCHANGED <<currentUser, isAnalyzing, analyses, net, inbox, deleted>>
  /\ ClientStep("toggleSubTask")

\* The arguments of the three toggles: lists of up to MaxGoals goals, two of
\* which may have the same id, with and without doneSubTasks and entries of
\* history, and an id that may be missing from the list.
ListGoals ==
  {[id |-> Num(i), text |-> "t", category |-> "HABIT", completed |-> completed, createdAt |-> i,
    rest |-> IF done = <<"none">> THEN [subTasks |-> <<"a", "b">>, history |-> history]
             ELSE [subTasks |-> <<"a", "b">>, history |-> history, doneSubTasks |-> done]] :
     i \in 1..MaxId, completed \in BOOLEAN, done \in {<<"none">>, <<"a">>, <<"b", "a">>},
     history \in {{}, {[day |-> todayStr, on |-> TRUE], [day |-> todayStr + 1, on |-> TRUE]}}}

ListInputs ==
  {[fn |-> "toggles", called |-> FALSE, list |-> list, id |-> Num(i), text |-> text] :
     list \in SeqsUpTo(ListGoals, MaxGoals), i \in 1..(MaxId + 1), text \in {"a", "b"}}

CallToggles ==
  /\ calc.fn = "toggles" /\ ~calc.called
  /\ LET goal == mapToggleGoal(calc.list, calc.id)
         sub == mapToggleSubTask(calc.list, calc.id, calc.text)
     IN calc' = [fn |-> "toggles", called |-> TRUE, list |-> calc.list, id |-> calc.id, text |-> calc.text,
                 toggleGoal |-> goal, toggleGoalTwice |-> mapToggleGoal(goal, calc.id),
                 toggleSubTask |-> sub, toggleSubTaskTwice |-> mapToggleSubTask(sub, calc.id, calc.text),
                 toggleHabit |-> mapToggleHabit(New, calc.list, calc.id),
                 toggleHabitOld |-> mapToggleHabit(Old, calc.list, calc.id)]
  /\ UNCHANGED <<server, currentUser, clientGoals, isAnalyzing, analyses, timer, net, inbox, deleted, now, tabs>>

\* A request of the client fails in transport: the catch of the fetch logs
\* the error and nothing else happens.
fetchFails ==
  /\ \E m \in net : net' = net \ {m}
  /\ UNCHANGED <<currentUser, clientGoals, isAnalyzing, analyses, timer, inbox, deleted>>
  /\ ClientStep("fetchFails")

\* The callback of setTimeout in the save effect when the network is down:
\* the fetch is rejected at once.
timerFiresOffline ==
  /\ timer.armed
  /\ timer' = NoTimer
  /\ UNCHANGED <<currentUser, clientGoals, isAnalyzing, analyses, net, inbox, deleted>>
  /\ ClientStep("timerFires")

\* ------------------------------------------------- several clients at once
\* The clients that one user has open at the same time, each with the goals
\* state and the timer of its own App.
Tabs == 1..MaxTabs

\* handleAddGoal of client c up to its await.
tabAddGoal(c, cap) ==
  /\ tabs[c].analyses = {}
  /\ Len(tabs[c].goals) < cap
  /\ LET list == <<newGoal(now)>> \o tabs[c].goals
     IN /\ tabs' = [tabs EXCEPT ![c] = [goals |-> list, timer |-> saveEffect(tabs[c].user, list),
                                        analyses |-> {now}, user |-> @.user]]
  /\ res' = Res("handleAddGoal", 0, NoUser, [ok |-> TRUE], <<>>)
  /\ job' = ForgetJob
  /\ UNCHANGED <<variant, db, goals, users, sqliteQueue, pending, registered>>
  /\ UNCHANGED <<currentUser, clientGoals, isAnalyzing, analyses, timer, net, inbox, deleted, now, calc>>

\* handleAddGoal of client c after its await.
tabAddGoalAnalyzed(c, tempId, response) ==
  /\ tempId \in tabs[c].analyses
  /\ LET list == [i \in DOMAIN tabs[c].goals |->
                    IF tabs[c].goals[i].id = Num(tempId)
                      THEN Spread(tabs[c].goals[i], analyzeGoal(New, response)) ELSE tabs[c].goals[i]]
     IN /\ tabs' = [tabs EXCEPT ![c] = [goals |-> list, timer |-> saveEffect(tabs[c].user, list),
                                        analyses |-> {}, user |-> @.user]]
  /\ res' = Res("handleAddGoalAnalyzed", 0, NoUser, response, <<>>)
  /\ job' = ForgetJob
  /\ UNCHANGED <<variant, db, goals, users, sqliteQueue, pending, registered>>
  /\ UNCHANGED <<currentUser, clientGoals, isAnalyzing, analyses, timer, net, inbox, deleted, now, calc>>

\* The callback of setTimeout in the save effect of client c.
tabTimerFires(c) ==
  /\ tabs[c].timer.armed
  /\ Cardinality(net) < MaxTabs
  /\ net' = net \cup {[type |-> "POST", username |-> tabs[c].timer.username, goals |-> tabs[c].timer.goals]}
  /\ tabs' = [tabs EXCEPT ![c].timer = NoTimer]
  /\ res' = Res("timerFires", 0, NoUser, [ok |-> TRUE], <<>>)
  /\ job' = ForgetJob
  /\ UNCHANGED <<variant, db, goals, users, sqliteQueue, pending, registered>>
  /\ UNCHANGED <<currentUser, clientGoals, isAnalyzing, analyses, timer, inbox, deleted, now, calc>>

\* The page is opened again (a reload, or a later visit): App mounts with the
\* state of its useState calls, the username of localStorage, and runs the
\* load effect and the save effect of the first render.
App ==
  /\ currentUser # NoUser
  /\ Cardinality(net) < MaxNet
  /\ clientGoals' = <<>>
  /\ isAnalyzing' = FALSE
  /\ analyses' = {}
  /\ timer' = saveEffect(currentUser, <<>>)
  /\ net' = net \cup loadEffect(currentUser)
  /\ inbox' = {}
  /\ deleted' = NoDelete
  /\ UNCHANGED currentUser
  /\ ClientStep("App")

\* ----------------------------------------------------------- the server
InitTables ==
  /\ variant \in Variants
  /\ db = IF variant.kind = "legacy" THEN variant.type ELSE "undefined"
  /\ goals = {}
  /\ users = {}
  /\ sqliteQueue = <<>>
  /\ pending = {}
  /\ job = NoJob
  /\ res = Res("start", 0, NoUser, [ok |-> TRUE], <<>>)
  /\ registered = [u \in Users |-> NoPassword]

\* No browser tab is open.
NoApp ==
  /\ currentUser = NoUser
  /\ clientGoals = <<>>
  /\ isAnalyzing = FALSE
  /\ analyses = {}
  /\ timer = NoTimer
  /\ net = {}
  /\ inbox = {}
  /\ deleted = NoDelete
  /\ now = 1
  /\ tabs = NoTabs

NoClient ==
  /\ NoApp
  /\ calc = NoCalc

Init ==
  /\ InitTables
  /\ NoClient

\* The username-scoped server (db-check.js, second variant of server.js).
InitScoped ==
  /\ Init
  /\ variant.kind = "scoped"

NextScoped ==
  \/ initDb /\ UNCHANGED client
  \/ \E username \in Users \cup {NoUser} : GetGoalsScoped(username) /\ UNCHANGED client
  \/ SqliteAll /\ UNCHANGED client
  \/ \E username \in Users \cup {NoUser}, body \in GoalBodies : PostGoalsScoped(username, body) /\ UNCHANGED client
  \/ PostGoalsSupabaseInsert /\ UNCHANGED client
  \/ SqliteRunDelete /\ UNCHANGED client
  \/ SqliteRunInsert /\ UNCHANGED client

SpecScoped == InitScoped /\ [][NextScoped]_vars

\* Every variant of the goals server; a request replaces a user's goals by
\* nothing or by one of two goals.
LoadBodies == {Arr(<<>>), Arr(<<MkGoal(1, 1)>>), Arr(<<MkGoal(2, 1)>>)}

Next ==
  \/ initDb /\ UNCHANGED client
  \/ \E username \in Users \cup {NoUser} : GetGoalsScoped(username) /\ UNCHANGED client
  \/ \E username \in Users \cup {NoUser} : GetGoalsLegacy(username) /\ UNCHANGED client
  \/ SqliteAll /\ UNCHANGED client
  \/ \E username \in Users \cup {NoUser}, body \in LoadBodies : PostGoalsScoped(username, body) /\ UNCHANGED client
  \/ PostGoalsSupabaseInsert /\ UNCHANGED client
  \/ \E body \in LoadBodies : PostGoalsLegacy(body) /\ UNCHANGED client
  \/ SqliteRunDelete /\ UNCHANGED client
  \/ SqliteRunInsert /\ UNCHANGED client

Spec == Init /\ [][Next]_vars

\* The server of db-check.js with its register, login and POST /api/goals
\* handlers; the goals requests are one user's, with one goal.
AuthBodies == {Arr(<<MkGoal(1, 1)>>)}

InitAuth ==
  /\ Init
  /\ variant.kind = "scoped"

NextAuth ==
  \/ initDb /\ UNCHANGED client
  \/ \E username \in Users \cup {NoUser}, password \in Passwords \cup {NoPassword},
        salt \in 1..MaxSalt, id \in 1..MaxUid : PostRegister(username, password, salt, id) /\ UNCHANGED client
  \/ \E username \in Users \cup {NoUser}, password \in Passwords \cup {NoPassword} :
        PostLogin(username, password) /\ UNCHANGED client
  \/ \E username \in {"alice", NoUser}, body \in AuthBodies : PostGoalsScoped(username, body) /\ UNCHANGED client
  \/ PostGoalsSupabaseInsert /\ UNCHANGED client
  \/ SqliteRunDelete /\ UNCHANGED client
  \/ SqliteRunInsert /\ UNCHANGED client

SpecAuth == InitAuth /\ [][NextAuth]_vars

\* The client of src/unnamed/part_000 and the server of db-check.js: every
\* request the server handles is one the client has sent.  The tab opens
\* with the username localStorage holds, and its load effect has run; the
\* user adds goals, deletes them and logs out.
ClientUsers == {"alice"}

InitClient ==
  /\ InitTables
  /\ variant.kind = "scoped"
  /\ currentUser \in ClientUsers \cup {NoUser}
  /\ clientGoals = <<>>
  /\ isAnalyzing = FALSE
  /\ analyses = {}
  /\ timer = saveEffect(currentUser, <<>>)
  /\ net = loadEffect(currentUser)
  /\ inbox = {}
  /\ deleted = NoDelete
  /\ now = 1
  /\ tabs = NoTabs
  /\ calc = NoCalc

NextClient ==
  \/ initDb /\ UNCHANGED client
  \/ \E m \in net :
       /\ m.type = "GET"
       /\ GetGoalsScoped(m.username)
       /\ net' = net \ {m}
       /\ inbox' = inbox \cup Reply(res')
       /\ UNCHANGED <<now, calc, tabs, currentUser, clientGoals, isAnalyzing, analyses, timer, deleted>>
  \/ /\ SqliteAll
     /\ inbox' = inbox \cup Reply(res')
     /\ UNCHANGED <<now, calc, tabs, currentUser, clientGoals, isAnalyzing, analyses, timer, net, deleted>>
  \/ \E m \in net :
       /\ m.type = "POST"
       /\ PostGoalsScoped(m.username, Arr(m.goals))
       /\ net' = net \ {m}
       /\ UNCHANGED <<now, calc, tabs, currentUser, clientGoals, isAnalyzing, analyses, timer, inbox, deleted>>
  \/ PostGoalsSupabaseInsert /\ UNCHANGED client
  \/ SqliteRunDelete /\ UNCHANGED client
  \/ SqliteRunInsert /\ UNCHANGED client
  \/ Tick
  \/ timerFires
  \/ loadResponse
  \/ handleLogout
  \/ handleAddGoal(MaxClientGoals)
  \/ \E tempId \in 1..MaxNow, response \in Answers : handleAddGoalAnalyzed(tempId, response)
  \/ \E id \in {Num(i) : i \in 1..MaxNow} \cup {Str(i) : i \in 1..MaxNow} : deleteGoal(id)

SpecClient == InitClient /\ [][NextClient]_vars

\* The client in front of the Supabase backend, with a user who stays logged
\* in, adds and deletes goals and opens the page again.
InitReopen ==
  /\ InitClient
  /\ variant.type = "supabase"
  /\ currentUser \in ClientUsers

NextReopen ==
  \/ initDb /\ UNCHANGED client
  \/ \E m \in net :
       /\ m.type = "GET"
       /\ GetGoalsScoped(m.username)
       /\ net' = net \ {m}
       /\ inbox' = inbox \cup Reply(res')
       /\ UNCHANGED <<now, calc, tabs, currentUser, clientGoals, isAnalyzing, analyses, timer, deleted>>
  \/ \E m \in net :
       /\ m.type = "POST"
       /\ PostGoalsScoped(m.username, Arr(m.goals))
       /\ net' = net \ {m}
       /\ UNCHANGED <<now, calc, tabs, currentUser, clientGoals, isAnalyzing, analyses, timer, inbox, deleted>>
  \/ PostGoalsSupabaseInsert /\ UNCHANGED client
  \/ Tick
  \/ App
  \/ timerFires
  \/ loadResponse
  \/ handleAddGoal(MaxClientGoals)
  \/ \E tempId \in 1..MaxNow : handleAddGoalAnalyzed(tempId, Response(FALSE, FALSE, <<>>))
  \/ \E id \in {Num(i) : i \in 1..MaxNow} : deleteGoal(id)

SpecReopen == InitReopen /\ [][NextReopen]_vars

\* The client alone, with a user who stays logged in and a network on which
\* every request to /api/goals fails; the list may hold MaxGoals goals.
InitOffline ==
  /\ InitClient
  /\ variant.type = "sqlite"
  /\ currentUser \in ClientUsers

NextOffline ==
  \/ Tick
  \/ timerFiresOffline
  \/ fetchFails
  \/ handleAddGoal(MaxGoals)
  \/ \E tempId \in 1..MaxNow, response \in AllAnswers : handleAddGoalAnalyzed(tempId, response)
  \/ \E id \in {Num(i) : i \in 1..MaxNow} : deleteGoal(id)
  \/ \E id \in {Num(i) : i \in 1..MaxNow} : toggleGoal(id)
  \/ \E id \in {Num(i) : i \in 1..MaxNow} : toggleHabit(id)
  \/ \E id \in {Num(i) : i \in 1..MaxNow}, text \in {"a"} : toggleSubTask(id, text)

SpecOffline == InitOffline /\ [][NextOffline]_vars

\* The functions of the client that compute a value from their arguments,
\* each called once with arguments of the bounded sets.
CalcInputs == AnalyzeInputs \cup ToggleInputs \cup StatInputs

InitCalc ==
  /\ InitTables
  /\ variant = [kind |-> "scoped", type |-> "sqlite"]
  /\ NoApp
  /\ calc \in CalcInputs

NextCalc ==
  \/ CallAnalyzeGoal
  \/ CallToggleHabit
  \/ CallGetHabitStats

SpecCalc == InitCalc /\ [][NextCalc]_vars

\* The same client when the user only adds and deletes goals.
NextAnalysis ==
  \/ Tick
  \/ timerFiresOffline
  \/ fetchFails
  \/ handleAddGoal(MaxGoals)
  \/ \E tempId \in 1..MaxNow, response \in AllAnswers : handleAddGoalAnalyzed(tempId, response)
  \/ \E id \in {Num(i) : i \in 1..MaxNow} : deleteGoal(id)

SpecAnalysis == InitOffline /\ [][NextAnalysis]_vars

\* The client in front of the Supabase backend when users log in and out:
\* alice and bob are registered, alice has one goal stored from an earlier
\* day, and the tab opens on the login screen or with alice's name in
\* localStorage.  The sync requests of the client are lost on their way
\* (fetchFails), so that the rows the server stores stay as they are.
StoredGoal == newGoal(0)

UserRow(id, username, password, salt) ==
  [id |-> id, username |-> username, password_hash |-> hashPassword(password, salt).hash,
   salt |-> hashPassword(password, salt).salt]

InitSwitch ==
  /\ variant = [kind |-> "scoped", type |-> "supabase"]
  /\ db = "supabase"
  /\ goals = {ObjectRow("alice", StoredGoal)}
  /\ users = {UserRow(1, "alice", "pw1", 1), UserRow(2, "bob", "pw1", 1)}
  /\ sqliteQueue = <<>>
  /\ pending = {}
  /\ job = NoJob
  /\ res = Res("start", 0, NoUser, [ok |-> TRUE], <<>>)
  /\ registered = [u \in Users |-> "pw1"]
  /\ currentUser \in ClientUsers \cup {NoUser}
  /\ clientGoals = <<>>
  /\ isAnalyzing = FALSE
  /\ analyses = {}
  /\ timer = saveEffect(currentUser, <<>>)
  /\ net = loadEffect(currentUser)
  /\ inbox = {}
  /\ deleted = NoDelete
  /\ now = 1
  /\ tabs = NoTabs
  /\ calc = NoCalc

NextSwitch ==
  \/ \E m \in net :
       /\ m.type = "LOGIN"
       /\ Cardinality(inbox) < MaxInbox
       /\ PostLogin(m.username, m.password)
       /\ net' = net \ {m}
       /\ inbox' = inbox \cup AuthReply(res')
       /\ UNCHANGED <<now, calc, tabs, currentUser, clientGoals, isAnalyzing, analyses, timer, deleted>>
  \/ \E m \in net :
       /\ m.type = "GET"
       /\ Cardinality(inbox) < MaxInbox
       /\ GetGoalsScoped(m.username)
       /\ net' = net \ {m}
       /\ inbox' = inbox \cup Reply(res')
       /\ UNCHANGED <<now, calc, tabs, currentUser, clientGoals, isAnalyzing, analyses, timer, deleted>>
  \/ Tick
  \/ timerFires
  \/ fetchFails
  \/ loadResponse
  \/ handleLogout
  \/ \E username \in Users, password \in Passwords : handleAuth("LOGIN", username, password)
  \/ handleAuthResponse
  \/ handleAddGoal(MaxClientGoals)
  \/ \E tempId \in 1..MaxNow : handleAddGoalAnalyzed(tempId, Response(FALSE, FALSE, <<>>))
  \/ \E id \in {Num(i) : i \in 1..MaxNow} \cup {Str(0)} : deleteGoal(id)

SpecSwitch == InitSwitch /\ [][NextSwitch]_vars

\* The same users when the load requests are lost as well: the list holds
\* what the user has added since the login.
NextSession ==
  \/ \E m \in net :
       /\ m.type = "LOGIN"
       /\ Cardinality(inbox) < MaxInbox
       /\ PostLogin(m.username, m.password)
       /\ net' = net \ {m}
       /\ inbox' = inbox \cup AuthReply(res')
       /\ UNCHANGED <<now, calc, tabs, currentUser, clientGoals, isAnalyzing, analyses, timer, deleted>>
  \/ Tick
  \/ timerFires
  \/ fetchFails
  \/ handleLogout
  \/ \E username \in Users, password \in Passwords : handleAuth("LOGIN", username, password)
  \/ handleAuthResponse
  \/ handleAddGoal(MaxClientGoals)
  \/ \E tempId \in 1..MaxNow : handleAddGoalAnalyzed(tempId, Response(FALSE, FALSE, <<>>))
  \/ \E id \in {Num(i) : i \in 1..MaxNow} \cup {Str(0)} : deleteGoal(id)

SpecSession == InitSwitch /\ [][NextSession]_vars

\* The client in front of a server whose initDb has not finished: db is
\* undefined, and every request to /api/goals is answered with an error or
\* fails on its way.
NextFailing ==
  \/ \E m \in net :
       /\ m.type = "GET"
       /\ Cardinality(inbox) < MaxInbox
       /\ GetGoalsScoped(m.username)
       /\ net' = net \ {m}
       /\ inbox' = inbox \cup Reply(res')
       /\ UNCHANGED <<now, calc, tabs, currentUser, clientGoals, isAnalyzing, analyses, timer, deleted>>
  \/ \E m \in net :
       /\ m.type = "POST"
       /\ PostGoalsScoped(m.username, Arr(m.goals))
       /\ net' = net \ {m}
       /\ UNCHANGED <<now, calc, tabs, currentUser, clientGoals, isAnalyzing, analyses, timer, inbox, deleted>>
  \/ Tick
  \/ App
  \/ timerFires
  \/ fetchFails
  \/ loadResponse
  \/ handleAddGoal(MaxGoals)
  \/ \E tempId \in 1..MaxNow : handleAddGoalAnalyzed(tempId, Response(FALSE, FALSE, <<>>))
  \/ \E id \in {Num(i) : i \in 1..MaxNow} : deleteGoal(id)

SpecFailing == InitOffline /\ [][NextFailing]_vars

\* The three toggles, each applied to a list and an id of the bounded sets.
InitToggles ==
  /\ InitTables
  /\ variant = [kind |-> "scoped", type |-> "sqlite"]
  /\ NoApp
  /\ calc \in ListInputs

NextToggles == CallToggles

SpecToggles == InitToggles /\ [][NextToggles]_vars

\* The client while goals are analysed: the user adds goals, and toggles and
\* deletes goals while an analysis is outstanding.
NextPatch ==
  \/ Tick
  \/ handleAddGoal(MaxGoals)
  \/ \E tempId \in 1..MaxNow, response \in Answers : handleAddGoalAnalyzed(tempId, response)
  \/ \E id \in {Num(i) : i \in 1..MaxNow} : isAnalyzing /\ deleteGoal(id)
  \/ \E id \in {Num(i) : i \in 1..MaxNow} : isAnalyzing /\ toggleGoal(id)
  \/ \E id \in {Num(i) : i \in 1..MaxNow} : isAnalyzing /\ toggleHabit(id)
  \/ \E id \in {Num(i) : i \in 1..MaxNow}, text \in {"a"} : isAnalyzing /\ toggleSubTask(id, text)

SpecPatch == InitOffline /\ [][NextPatch]_vars

\* Two clients of one user in front of the scoped server, each with the
\* empty list it has loaded; the analysis service does not answer.  What the
\* server answers to a sync is kept in inbox (the clients do not read it).
Saved(status, list) == [op |-> "saved", status |-> status, goals |-> list]

InitTabs ==
  /\ InitTables
  /\ variant.kind = "scoped"
  /\ currentUser = NoUser
  /\ clientGoals = <<>>
  /\ isAnalyzing = FALSE
  /\ analyses = {}
  /\ timer = NoTimer
  /\ net = {}
  /\ inbox = {}
  /\ deleted = NoDelete
  /\ now = 1
  /\ calc = NoCalc
  /\ tabs = [c \in Tabs |-> [goals |-> <<>>, timer |-> NoTimer, analyses |-> {}, user |-> "alice"]]

NextTabs ==
  \/ initDb /\ UNCHANGED client
  \/ \E m \in net :
       /\ PostGoalsScoped(m.username, Arr(m.goals))
       /\ net' = net \ {m}
       /\ inbox' = IF res'.op = "POST /api/goals" THEN inbox \cup {Saved(res'.status, m.goals)} ELSE inbox
       /\ UNCHANGED <<now, calc, tabs, currentUser, clientGoals, isAnalyzing, analyses, timer, deleted>>
  \/ /\ PostGoalsSupabaseInsert
     /\ inbox' = inbox \cup {Saved(res'.status, job'.given)}
     /\ UNCHANGED <<now, calc, tabs, currentUser, clientGoals, isAnalyzing, analyses, timer, net, deleted>>
  \/ SqliteRunDelete /\ UNCHANGED client
  \/ SqliteRunInsert /\ UNCHANGED client
  \/ Tick
  \/ \E c \in Tabs : tabAddGoal(c, MaxClientGoals)
  \/ \E c \in Tabs, tempId \in 1..MaxNow : tabAddGoalAnalyzed(c, tempId, Response(FALSE, FALSE, <<>>))
  \/ \E c \in Tabs : tabTimerFires(c)

SpecTabs == InitTabs /\ [][NextTabs]_vars

\* ================================================================ claims
IsLogin(r) == r.op = "POST /api/login"
IsRegister(r) == r.op = "POST /api/register"
IsPostGoals(r) == r.op = "POST /api/goals"
IsGetGoals(r) == r.op = "GET /api/goals"

\* The rows a finished replace was asked to store, and the rows stored for
\* its username now.
GivenRows(j) ==
  {IF variant.type = "sqlite" THEN SqliteRow(j.username, j.given[i])
                              ELSE ObjectRow(j.username, j.given[i]) : i \in DOMAIN j.given}

StoredIn(table, username) == {r \in table : r.username = username}

StoredFor(username) == StoredIn(goals, username)

DistinctIds(list) == \A i, k \in DOMAIN list : i # k => list[i].id # list[k].id

\* C1: on a transactional backend (SQLite, PostgreSQL) a replace is atomic:
\* once the statements of a replace (here: of goals with distinct ids) have
\* run, the stored goals of the username are exactly the given ones, or, if
\* an insert failed, exactly the ones stored before the replace.
C1_ReplaceIsAtomic ==
  (variant.type \in {"sqlite", "postgres"} /\ job.started /\ job.done
     /\ DistinctIds(job.given))
  => IF job.failed THEN StoredFor(job.username) = job.before
                   ELSE StoredFor(job.username) = GivenRows(job)

\* C2: a load that follows a finished replace of the same user returns the
\* given goals, equal in every field (and the empty sequence for the empty
\* sequence).
C2_RoundTrip ==
  (IsGetGoals(res) /\ res.status = 200 /\ job.started /\ job.done
     /\ job.username = res.username)
  => res.goals = job.given

\* C3: after the user has deleted a goal with deleteGoal (the only remaining
\* goal included) and has done nothing since, once the debounced sync has
\* had its time and client and server have come to rest (no timer armed, no
\* analysis outstanding, no request or answer under way, no statement left
\* to run), the goals stored for that user do not contain the deleted goal.
AtRest ==
  /\ ~timer.armed
  /\ analyses = {}
  /\ net = {}
  /\ inbox = {}
  /\ sqliteQueue = <<>>
  /\ pending = {}

C3_DeletedGoalLeavesServer ==
  (deleted # NoDelete /\ AtRest) =>
    \A r \in StoredFor(deleted.username) : r.id # String(deleted.id)


\* C4: a replace for one user changes no other user's stored goals, stores
\* the given goals whatever the others have stored (also under an id another
\* user has stored), and a load returns rows of its own username only.
C4_UserScoped ==
  [][/\ \A u \in Users : StoredIn(goals', u) # StoredIn(goals, u) => res'.username = u
     /\ (job'.started /\ job'.done /\ DistinctIds(job'.given))
          => StoredIn(goals', job'.username) = GivenRows(job')
     /\ IsGetGoals(res') =>
          \A i \in DOMAIN res'.goals :
            \E r \in goals' : r.username = res'.username /\ r.id = res'.goals[i].id]_vars

\* C5: POST /api/goals (here: with goals of distinct ids) is answered with
\* success only if the delete and every insert were applied, and with an
\* error (500) if one of them failed.
C5_SuccessOnlyIfApplied ==
  (job.started /\ job.done /\ DistinctIds(job.given))
  => /\ job.answered = 200 => ~job.failed
     /\ job.failed => job.answered = 500

\* C6: after a successful register(username, password) with both non-empty,
\* a login with the same password is answered with success and a login with
\* any other non-empty password with 401.
C6_RegisterThenLogin ==
  (IsLogin(res) /\ res.username # NoUser /\ res.password # NoPassword
     /\ registered[res.username] # NoPassword)
  => IF res.password = registered[res.username]
       THEN res.status = 200 /\ res.body = [success |-> TRUE, username |-> res.username]
     ELSE res.status = 401

C6_Witness ==
  /\ IsLogin(res) /\ res.status = 200
  /\ registered[res.username] = res.password
  /\ \E r \in users : r.username = res.username

\* C7: a register for a username that already has a record is answered with
\* an error and no step ever changes or removes an existing user record (so
\* the stored salt and hash stay those of the first registration).
C7_UsersNeverChange ==
  [][/\ \A r \in users : r \in users'
     /\ (IsRegister(res') /\ \E r \in users : r.username = res'.username)
          => (res'.status \notin {200} /\ users' = users /\ registered' = registered)]_vars

C7_Witness ==
  /\ IsRegister(res) /\ res.status = 500
  /\ res.password # NoPassword
  /\ \E r \in users : r.username = res.username
  /\ registered[res.username] \notin {NoPassword, res.password}

\* C8: on an initialised backend (SQLite or Supabase) a login with non-empty
\* username and password for an unknown username or with a password other
\* than the registered one is answered 401; whatever the backend state, such
\* a login is not answered with success nor with a body carrying a stored
\* hash or salt.
C8_LoginRejects ==
  (IsLogin(res) /\ res.username # NoUser /\ res.password # NoPassword
     /\ registered[res.username] # res.password)
  => /\ db \in {"sqlite", "supabase"} => res.status = 401
     /\ res.status # 200
     /\ DOMAIN res.body \cap {"success", "password_hash", "salt", "hash"} = {}

C8_Witness ==
  /\ IsLogin(res) /\ res.status = 401
  /\ res.password # NoPassword
  /\ registered[res.username] \notin {NoPassword, res.password}

\* C9: a register or login without username or without password, and a
\* POST /api/goals without username, is answered 400 and changes neither the
\* users table nor the goals table nor schedules any write.
C9_MissingFieldIs400 ==
  [][(\/ ((IsRegister(res') \/ IsLogin(res'))
             /\ (res'.username = NoUser \/ res'.password = NoPassword))
       \/ (IsPostGoals(res') /\ res'.username = NoUser))
      => (res'.status = 400 /\ users' = users /\ goals' = goals
            /\ sqliteQueue' = sqliteQueue /\ pending' = pending)]_vars

C9_Witness ==
  /\ IsPostGoals(res) /\ res.status = 400 /\ res.username = NoUser
  /\ goals # {}
  /\ users # {}

\* C10 as stated: GET /api/goals answers the empty sequence, without error,
\* when the username is absent or the user has no stored goals, whatever
\* the others have stored and whether or not the backend is initialised.
C10_Original ==
  (IsGetGoals(res) /\ (res.username = NoUser \/ ~\E r \in goals : r.username = res.username))
  => (res.status = 200 /\ res.goals = <<>>)

\* C10 amended: on the username-scoped server GET /api/goals answers 200 and
\* the empty sequence when the username is absent (initialised backend or
\* not) and when the username is given, the backend is initialised and that
\* user has no stored goals, whatever the others have stored; with a
\* username and an uninitialised backend it answers 500; every goal it
\* returns is a stored row of that username.  The legacy server ignores the
\* username and returns every stored goal.
C10_EmptyWhenNothingStored ==
  IsGetGoals(res) =>
    IF variant.kind = "legacy"
      THEN /\ res.status = 200
           /\ {res.goals[i].id : i \in DOMAIN res.goals} = {r.id : r \in goals}
    ELSE /\ res.username = NoUser => (res.status = 200 /\ res.goals = <<>>)
         /\ (res.username # NoUser /\ db = "undefined") => (res.status = 500 /\ res.goals = <<>>)
         /\ (res.username # NoUser /\ db # "undefined") =>
              /\ res.status = 200
              /\ (~\E r \in goals : r.username = res.username) => res.goals = <<>>
              /\ \A i \in DOMAIN res.goals :
                   \E r \in goals : r.username = res.username /\ r.id = res.goals[i].id

C10_Witness ==
  /\ IsGetGoals(res) /\ res.status = 200 /\ res.goals = <<>>
  /\ variant.kind = "scoped" /\ res.username # NoUser
  /\ ~\E r \in goals : r.username = res.username
  /\ goals # {}

\* C11: the in-memory list of the client never holds more goals than the cap
\* of handleAddGoal (100 in the source), whatever was loaded, analysed or
\* created.
C11_ListCapped == Len(clientGoals) <= MaxClientGoals

\* C12: no two goals of the in-memory list of the client have the same id.
C12_UniqueIds == DistinctIds(clientGoals)

\* The categories a goal may have once its analysis has completed.
Analysed == {"CHALLENGE", "HABIT", "HOBBY", "NONE"}

\* C13: a goal created by handleAddGoal is PENDING while its analysis is
\* outstanding, and from the completion of the analysis on its category is
\* one of CHALLENGE, HABIT, HOBBY and NONE.
C13_CategoryAfterAnalysis ==
  \A i \in DOMAIN clientGoals :
    \/ clientGoals[i].category \in Analysed
    \/ /\ clientGoals[i].category = "PENDING"
       /\ \E tempId \in analyses : clientGoals[i].id = Num(tempId)

\* A text with no JSON value in it, or with more than one, is not JSON, with
\* or without fences around it.
NoJson(text) == Cardinality({i \in DOMAIN text : text[i] \in Bodies}) # 1

\* The analysis request failed in transport, or was answered without text,
\* or with text that does not parse.
Failing(response) == ~response.ok \/ ~response.hasText \/ NoJson(response.text)

\* The goal as the fallback patches it.
PatchedNone(g, h) ==
  /\ h.category = "NONE"
  /\ h.rest.roadmap = <<>> /\ h.rest.subTasks = <<>> /\ "advice" \in DOMAIN h.rest
  /\ h.id = g.id /\ h.text = g.text /\ h.completed = g.completed /\ h.createdAt = g.createdAt
  /\ h.rest.history = g.rest.history

\* C14: when the analysis request fails in transport, is answered with an
\* error payload or with text that does not parse, the handler goes on with
\* the fallback: the list keeps its length and order, the analysed goal is
\* patched with category NONE, empty roadmap and subTasks and an advice, every
\* other goal is unchanged, and isAnalyzing is false again.
C14_FallbackOnFailure ==
  [][(res'.op = "handleAddGoalAnalyzed" /\ analyses' # analyses /\ Failing(res'.body)) =>
       /\ ~isAnalyzing'
       /\ Len(clientGoals') = Len(clientGoals)
       /\ \A i \in DOMAIN clientGoals :
            IF \E tempId \in analyses \ analyses' : clientGoals[i].id = Num(tempId)
              THEN PatchedNone(clientGoals[i], clientGoals'[i])
              ELSE clientGoals'[i] = clientGoals[i]]_vars

C14_Witness ==
  /\ res.op = "handleAddGoalAnalyzed" /\ res.body.ok /\ res.body.hasText /\ NoJson(res.body.text)
  /\ ~isAnalyzing
  /\ Len(clientGoals) = 2
  /\ clientGoals[1].category = "NONE" /\ clientGoals[2].category # "NONE"

\* C15: analyzeGoal returns for a text between an opening fence (with or
\* without a language tag) and a closing fence what it returns for the text
\* itself.
C15_FenceIgnored == (calc.fn = "analyzeGoal" /\ calc.called) => calc.fenced = calc.plain

\* C16: the subTasks of a goal of the list has at most three entries, also
\* after its analysis has completed.
C16_AtMostThreeSubTasks ==
  \A i \in DOMAIN clientGoals : Len(clientGoals[i].rest.subTasks) <= SubTaskLimit

\* history has a key for that day, whatever its value.
HasEntry(history, day) == \E e \in history : e.day = day

\* C17: starting from a history without an entry for today, one call of
\* toggleHabit makes today's entry present and truthy, a second leaves the
\* key absent, a third makes it present and truthy again; the entries of the
\* other days are as they were after each call.
C17_ToggleAlternates ==
  (calc.fn = "toggleHabit" /\ calc.called /\ ~HasEntry(calc.history, calc.day)) =>
    /\ Truthy(calc.once, calc.day)
    /\ ~HasEntry(calc.twice, calc.day)
    /\ Truthy(calc.thrice, calc.day)
    /\ \A h \in {calc.once, calc.twice, calc.thrice} :
         Without(h, calc.day) = Without(calc.history, calc.day)

\* ceil(a / b) for every integer a and b > 0, and the clamp of the claims.
CeilDiv(a, b) == 0 - ((0 - a) \div b)

Clamp(x, lo, hi) == IF x < lo THEN lo ELSE IF x > hi THEN hi ELSE x

\* getHabitStats has been called for a HABIT goal with a createdAt.
StatsOfHabit ==
  calc.fn = "getHabitStats" /\ calc.called /\ calc.goal.category = "HABIT" /\ calc.goal.hasCreatedAt

\* C18 as stated: daysElapsed is clamp(ceil(hours since createdAt / 24), 1, 30).
C18_Original ==
  StatsOfHabit =>
    calc.stats.daysElapsed = Clamp(CeilDiv(calc.time - calc.goal.createdAt, 24), 1, 30)

\* C18: for a HABIT goal with a createdAt, daysElapsed is
\* clamp(ceil(hours between createdAt and now / 24), 1, 30), with the hours
\* counted without sign: 1 for a goal created at this instant, never below 1,
\* and 30 for every goal 30 or more days old.
C18_DaysElapsed ==
  StatsOfHabit =>
    LET age == calc.time - calc.goal.createdAt IN
    /\ calc.stats.daysElapsed = Clamp(CeilDiv(Abs(age), 24), 1, 30)
    /\ age = 0 => calc.stats.daysElapsed = 1
    /\ calc.stats.daysElapsed >= 1
    /\ age >= 30 * 24 => calc.stats.daysElapsed = 30

C18_Witness ==
  /\ StatsOfHabit
  /\ calc.goal.createdAt = calc.time + 2 * 24
  /\ calc.stats.daysElapsed = 2

\* C19: getHabitStats returns as count the number of days among today and
\* the daysElapsed - 1 days before it whose entry of history is truthy, and
\* as rate round(100 * count / daysElapsed), so that 0 <= count <= daysElapsed
\* and 0 <= rate <= 100; for a goal that is not a HABIT or has no createdAt
\* the rate is 0; a HABIT goal in its third day with truthy entries on all
\* three days gets daysElapsed 3, count 3 and rate 100.
C19_CountAndRate ==
  (calc.fn = "getHabitStats" /\ calc.called) =>
    LET stats == calc.stats
        today == calc.time \div 24
        days == {today - k : k \in 0..(stats.daysElapsed - 1)}
        truthy == {day \in days : \E e \in calc.goal.history : e.day = day /\ e.on}
        age == calc.time - calc.goal.createdAt
    IN /\ stats.count = Cardinality(truthy)
       /\ 0 <= stats.count /\ stats.count <= stats.daysElapsed
       /\ 0 <= stats.rate /\ stats.rate <= 100
       /\ StatsOfHabit =>
            /\ 2 * stats.rate * stats.daysElapsed - stats.daysElapsed <= 200 * stats.count
            /\ 200 * stats.count < 2 * stats.rate * stats.daysElapsed + stats.daysElapsed
       /\ ~StatsOfHabit => stats.rate = 0
       /\ (StatsOfHabit /\ 2 * 24 < age /\ age <= 3 * 24 /\ {today, today - 1, today - 2} \subseteq truthy) =>
            stats = [rate |-> 100, daysElapsed |-> 3, count |-> 3]

C19_Witness ==
  /\ StatsOfHabit
  /\ calc.time - calc.goal.createdAt = 2 * 24 + 1
  /\ calc.stats = [rate |-> 100, daysElapsed |-> 3, count |-> 3]

\* The steps of the client that change the goal list.
ListChanges == {"handleAddGoal", "handleAddGoalAnalyzed", "deleteGoal", "toggleGoal", "toggleHabit", "toggleSubTask"}

\* C20: after every change of the goal list one sync is due: the one timer of
\* the save effect is armed and holds the list as it is after the change
\* (the timers of earlier changes are cleared), so that the burst ends in one
\* request with the latest list.
C20_OneSyncWithLatestList ==
  (res.op \in ListChanges /\ currentUser # NoUser) =>
    (timer.armed /\ timer.username = currentUser /\ timer.goals = clientGoals)

\* Each of the two clients has added a goal, the two goals differ, and the
\* sync of the list each client holds has been answered with success;
\* nothing is left to do for the clients or the server.
SyncAnswered(c) == Saved(200, tabs[c].goals) \in inbox

BothSynced ==
  /\ DOMAIN tabs = Tabs
  /\ \A c \in Tabs : Len(tabs[c].goals) = 1 /\ ~tabs[c].timer.armed /\ tabs[c].analyses = {} /\ SyncAnswered(c)
  /\ \A c, e \in Tabs : c # e => tabs[c].goals[1].id # tabs[e].goals[1].id
  /\ net = {} /\ sqliteQueue = <<>> /\ pending = {}

StoredIds(username) == {r.id : r \in StoredFor(username)}

TabIds == {String(tabs[c].goals[1].id) : c \in Tabs}

\* C21: two clients syncing for the same user can lose updates.  Whenever
\* both have added a different goal and both syncs were answered with
\* success, the stored goals are never more than what the two sent, they are
\* the goals of one sync alone on SQLite, where the replaces run one after the
\* other, and on Supabase either that or the rows of several syncs together,
\* a set that no client sent.
C21_LostUpdate ==
  BothSynced =>
    /\ StoredIds("alice") # {} /\ StoredIds("alice") \subseteq TabIds
    /\ db = "sqlite" => Cardinality(StoredIds("alice")) = 1

C21_Witness ==
  /\ BothSynced
  /\ db = "supabase"
  /\ Cardinality(StoredIds("alice")) = 1

\* C22: at most one analysis request is outstanding per client, and
\* isAnalyzing is true exactly while one is outstanding, whether the user
\* stays logged in, logs out or logs in again in the meantime; a goal is
\* created only while isAnalyzing is false.
C22_OneAnalysis ==
  /\ Cardinality(analyses) <= 1
  /\ isAnalyzing <=> analyses # {}
  /\ res.op = "handleAddGoal" => analyses = {clientGoals[1].createdAt}

\* An analysis is still outstanding after its user has logged out and bob
\* has logged in.
C22_Witness ==
  /\ isAnalyzing
  /\ analyses # {}
  /\ currentUser = "bob"

\* The answer a loadResponse step takes from inbox reports an error.
ErrorLoaded == \E r \in inbox \ inbox' : r.op = "goals" /\ ~r.data.isArray

\* C23: a load request or a sync request that fails leaves the goal list of
\* the client as it is: the step in which the request is lost, in which the
\* server answers a request with an error, and in which the client reads
\* the error answer of a load do not change the list.
C23_FailureKeepsList ==
  [][(\/ res'.op = "fetchFails"
      \/ res'.op \in {"GET /api/goals", "POST /api/goals"} /\ res'.status >= 400
      \/ res'.op = "loadResponse" /\ ErrorLoaded)
       => clientGoals' = clientGoals]_vars

\* The client has read the error answer of its load while a goal the user
\* added is in the list.
C23_Witness ==
  /\ res.op = "loadResponse"
  /\ db = "undefined"
  /\ Len(clientGoals) >= 1

\* C24: a step that keeps the length of the list (a toggle, the completion
\* of an analysis) leaves the id and the createdAt of every goal as they
\* were.
C24_IdAndCreatedAtKept ==
  [][Len(clientGoals') = Len(clientGoals) =>
       \A i \in DOMAIN clientGoals :
         /\ clientGoals'[i].id = clientGoals[i].id
         /\ clientGoals'[i].createdAt = clientGoals[i].createdAt]_vars

\* The texts of doneSubTasks of a goal, none when the goal has no such key.
Done(g) == IF "doneSubTasks" \in DOMAIN g.rest THEN Range(g.rest.doneSubTasks) ELSE {}

\* Goals g and h agree in every field but completed and the given key.
SameBut(g, h, key) ==
  /\ g.id = h.id /\ g.text = h.text /\ g.category = h.category /\ g.createdAt = h.createdAt
  /\ DOMAIN g.rest \ {key} = DOMAIN h.rest \ {key}
  /\ \A f \in DOMAIN g.rest \ {key} : g.rest[f] = h.rest[f]

Toggled(S, x) == IF x \in S THEN S \ {x} ELSE S \cup {x}

C26_OwnGoalsOnly ==
  \A m \in net :
    m.type = "POST" =>
      \A i \in DOMAIN m.goals :
        m.goals[i].id.t = "str" => m.goals[i].id \in StoredIds(m.username)

\* C27: in every step but deleteGoal, handleLogout and the login that
\* handleAuth completes, each goal of the list is still in the list
\* afterwards.
C27_GoalsStay ==
  [][res'.op \notin {"deleteGoal", "handleLogout", "handleAuthResponse"} =>
       \A i \in DOMAIN clientGoals :
         \E k \in DOMAIN clientGoals' : clientGoals'[k].id = clientGoals[i].id]_vars

\* The id of the goal whose analysis completes in a step.
Completed == analyses \ analyses'

\* The fields of a goal that the toggles set.
UserFields(g) ==
  [completed |-> g.completed, history |-> g.rest.history,
   done |-> IF "doneSubTasks" \in DOMAIN g.rest THEN <<g.rest.doneSubTasks>> ELSE <<>>]

AnalysedGone ==
  /\ Completed # {}
  /\ \A t \in Completed : \A i \in DOMAIN clientGoals : clientGoals[i].id # Num(t)

\* C29: when the goal is no longer in the list, deleted or cleared by a
\* logout or a login, the completion of its analysis leaves the list as it
\* is.
C29_NotPutBack == [][AnalysedGone => clientGoals' = clientGoals]_vars

\* The analysis of a goal has completed after the user who added it has
\* logged out and bob has logged in.
C29_Witness ==
  /\ res.op = "handleAddGoalAnalyzed"
  /\ currentUser = "bob"
  /\ deleted = NoDelete
  /\ clientGoals = <<>>

\* C30: a timer of the save effect is armed only for the user who is logged
\* in, so that no sync request is sent while nobody is logged in; the
\* logout clears the timer and the list; and while nobody is logged in the
\* only requests the client sends are those of the login form.
C30_NoSyncLoggedOut ==
  [][/\ timer'.armed => (currentUser' # NoUser /\ timer'.username = currentUser')
     /\ res'.op = "timerFires" =>
          (currentUser # NoUser /\ \A m \in net' \ net : m.type = "POST" /\ m.username = currentUser)
     /\ res'.op = "handleLogout" => (~timer'.armed /\ clientGoals' = <<>> /\ net' = net)
     /\ currentUser' = NoUser => \A m \in net' \ net : m.type = "LOGIN"]_vars

\* Nobody is logged in, and the answer to a load sent before the logout has
\* just put goals into the list: no timer is armed.
C30_Witness ==
  /\ currentUser = NoUser
  /\ res.op = "loadResponse"
  /\ Len(clientGoals) >= 1
  /\ ~timer.armed

====
